---------------------------- MODULE Spec2Model ----------------------------
(***************************************************************************)
(* A model of the NEPSE news pipeline: the four per-source extractors of   *)
(* news_scraper.py, the coordinator scrape_news, the per-symbol JSON file   *)
(* it writes, the read side in sentiment_analyzer.py and the CLI commands   *)
(* of main.py.                                                              *)
(*                                                                          *)
(* Python values are tagged records (None, Str, List, Dict, PyInt).  A      *)
(* Python str is a sequence of tokens: a symbol is spelled character by     *)
(* character (so that lower() is computed), a text block is spelled word    *)
(* by word (so that startswith, "in" and join are computed).  A web page    *)
(* is the parsed markup the code walks: the outcome of each network or      *)
(* browser call plus the elements the code looks up.                        *)
(***************************************************************************)
EXTENDS Integers, Sequences, FiniteSets, TLC

(***************************************************************************)
(* Bounds of the model.                                                     *)
(***************************************************************************)
\* scrape commands in one behaviour
MaxRuns == 2
\* listing items per listing page drawn for the extractor specification
MaxItems == 2

(***************************************************************************)
(* Python values.                                                           *)
(***************************************************************************)
None == [type |-> "NoneType"]
Str(t) == [type |-> "str", val |-> t]
List(s) == [type |-> "list", val |-> s]
Dict(f) == [type |-> "dict", val |-> f]
PyInt(n) == [type |-> "int", val |-> n]

\* Python truthiness of a value: None, "", [] and {} are falsy.
Truthy(v) ==
    CASE v.type = "NoneType" -> FALSE
      [] v.type = "str" -> v.val # <<>>
      [] v.type = "list" -> v.val # <<>>
      [] v.type = "dict" -> DOMAIN v.val # {}
      [] v.type = "int" -> v.val # 0

\* An optional piece of markup: Absent, or Present(x).
Absent == [present |-> FALSE]
Present(x) == [present |-> TRUE, val |-> x]

RECURSIVE Flatten(_)
\* the concatenation of a sequence of sequences
Flatten(ss) == IF ss = <<>> THEN <<>> ELSE Head(ss) \o Flatten(Tail(ss))

RECURSIVE JoinTexts(_, _)
\* sep.join(parts) for texts
JoinTexts(sep, parts) ==
    IF parts = <<>> THEN <<>>
    ELSE IF Len(parts) = 1 THEN parts[1]
    ELSE parts[1] \o sep \o JoinTexts(sep, Tail(parts))

\* text.startswith(prefixes): the text's first token is one of the prefixes
StartsWith(text, prefixes) == text # <<>> /\ text[1] \in prefixes

\* word in text
Contains(text, word) == \E i \in 1..Len(text) : text[i] = word

(***************************************************************************)
(* The sentinel strings and fixed texts of news_scraper.py.                 *)
(***************************************************************************)
FullArticleContentNotFound == <<"Full article content not found">>
ContentNotFound == <<"Content not found">>
NoReadableContentFound == <<"No readable content found">>
ErrorRetrieving == <<"Error retrieving full article content">>
TimeoutRetrieving == <<"Timeout retrieving full article content">>
NoTitle == <<"No title">>
UnknownDate == <<"Unknown date">>
\* '\n\n'
ParagraphBreak == <<"\n\n">>
\* ('(c)', 'License:', 'Author:'), (c) standing for the copyright sign U+00A9
BoilerplateMarkers == {"(c)", "License:", "Author:"}

investopaper_base_url == <<"https://www.investopaper.com">>
sharehub_base_url == <<"https://sharehubnepal.com">>
nepsealpha_base_url == <<"https://www.nepsealpha.com">>
sharesansar_base_url == <<"https://www.sharesansar.com">>
data_dir == <<"data">>

\* urljoin(base, url): an absolute url (first token a scheme) is kept, a
\* relative one is resolved against the base
IsAbsolute(url) == url # <<>> /\ url[1] \in {"http://", "https://"}
urljoin(base, url) == IF IsAbsolute(url) THEN url ELSE base \o url

(***************************************************************************)
(* Detail pages.  An element of the article body is a node                  *)
(* [tag, class, strong, text]: its tag name, its class, whether it holds a  *)
(* <strong> child, and its stripped text.  The body is the sequence of the  *)
(* content element's children.                                              *)
(***************************************************************************)
Node(tag, class, strong, text) ==
    [tag |-> tag, class |-> class, strong |-> strong, text |-> text]

\* the texts of the nodes whose tag is in tags, stripped and non-empty
TextsOf(nodes, tags) ==
    LET keep == SelectSeq(nodes, LAMBDA n : n.tag \in tags /\ n.text # <<>>)
    IN [i \in 1..Len(keep) |-> keep[i].text]

\* news_scraper.py 62-65, 364-367, 527-531: the <p> texts that are non-empty
\* and do not start with a boilerplate marker
CleanParagraphs(nodes) ==
    LET keep == SelectSeq(nodes, LAMBDA n :
                    /\ n.tag = "p"
                    /\ n.text # <<>>
                    /\ ~StartsWith(n.text, BoilerplateMarkers))
    IN [i \in 1..Len(keep) |-> keep[i].text]

\* '\n\n'.join(paragraphs) if paragraphs else "No readable content found"
JoinOrNoReadable(paragraphs) ==
    IF paragraphs # <<>> THEN Str(JoinTexts(ParagraphBreak, paragraphs))
    ELSE Str(NoReadableContentFound)

\* element.decompose() for every element with one of the tags
Decompose(nodes, tags) == SelectSeq(nodes, LAMBDA n : n.tag \notin tags)

\* news_scraper.py 51-58: the first <p> with a <strong> child whose text
\* contains 'Recommended' is removed together with its following siblings up
\* to (not including) the first <hr> among them
RemoveRecommended(nodes) ==
    LET marks == {i \in 1..Len(nodes) :
                    /\ nodes[i].tag = "p"
                    /\ nodes[i].strong
                    /\ Contains(nodes[i].text, "Recommended")}
    IN IF marks = {} THEN nodes
       ELSE LET m == CHOOSE i \in marks : \A j \in marks : i <= j
                hrs == {i \in (m + 1)..Len(nodes) : nodes[i].tag = "hr"}
                stop == IF hrs = {} THEN Len(nodes) + 1
                        ELSE CHOOSE i \in hrs : \A j \in hrs : i <= j
            IN SubSeq(nodes, 1, m - 1) \o SubSeq(nodes, stop, Len(nodes))

\* _scrape_full_article_investopaper(url).  page.get is the outcome of
\* requests.get and raise_for_status, page.entry_content the children of
\* div.entry-content when the page has one.
InvestopaperRemovedTags == {"div", "script", "style", "aside", "pre", "hr"}
SocialClasses == {"sfsiaftrpstwpr", "sfsi_responsive_icons"}
scrape_full_article_investopaper(page) ==
    IF page.get # "ok" THEN Str(ErrorRetrieving)
    ELSE IF ~page.entry_content.present THEN Str(FullArticleContentNotFound)
    ELSE LET body == Decompose(page.entry_content.val, InvestopaperRemovedTags)
             unsocial == SelectSeq(body, LAMBDA n : n.class \notin SocialClasses)
         IN JoinOrNoReadable(CleanParagraphs(RemoveRecommended(unsocial)))

\* _scrape_full_article_sharehubnepal(driver, url) -> (full_content,
\* publish_date).  page.nav is the outcome of driver.get and the wait for
\* #post-content, page.header_date the date span of header.py-3,
\* page.content the children of div#post-content in the page source.
ShareHubTextTags == {"p", "h2", "h3", "h4", "h5", "h6"}
\* scrape_full_article_sharehubnepal, had it no except TimeoutException clause
\* of its own: a TimeoutException is a WebDriverException and is caught as one
scrape_full_article_sharehubnepal_without_timeout_clause(page) ==
    CASE page.nav \in {"TimeoutException", "WebDriverException", "Exception"} ->
            <<Str(ErrorRetrieving), None>>
      [] page.nav = "ok" ->
            LET publish_date == IF page.header_date.present
                                THEN Str(page.header_date.val) ELSE None
                parts == IF page.content.present
                         THEN TextsOf(page.content.val, ShareHubTextTags)
                         ELSE <<>>
            IN <<JoinOrNoReadable(parts), publish_date>>

scrape_full_article_sharehubnepal(page) ==
    CASE page.nav = "TimeoutException" -> <<Str(TimeoutRetrieving), None>>
      [] page.nav \in {"WebDriverException", "Exception"} ->
            <<Str(ErrorRetrieving), None>>
      [] page.nav = "ok" ->
            LET publish_date == IF page.header_date.present
                                THEN Str(page.header_date.val) ELSE None
                parts == IF page.content.present
                         THEN TextsOf(page.content.val, ShareHubTextTags)
                         ELSE <<>>
            IN <<JoinOrNoReadable(parts), publish_date>>

\* _scrape_full_article_nepsealpha(driver, url) -> (content, article_date).
\* page.detail_date is the text of li.detail.date, page.content the children
\* of div#postDescriptions in the page source.
scrape_full_article_nepsealpha(page) ==
    CASE page.nav = "TimeoutException" -> <<Str(TimeoutRetrieving), None>>
      [] page.nav \in {"WebDriverException", "Exception"} ->
            <<Str(ErrorRetrieving), None>>
      [] page.nav = "ok" ->
            LET article_date == IF page.detail_date.present
                                THEN Str(page.detail_date.val) ELSE None
            IN IF ~page.content.present
               THEN <<Str(ContentNotFound), article_date>>
               ELSE <<JoinOrNoReadable(CleanParagraphs(page.content.val)),
                      article_date>>

\* _scrape_full_article_sharesansar(driver, url) -> full_content.
\* page.content is the children of div#newsdetail-content.
SharesansarRemovedTags == {"div", "script", "style", "aside", "figure", "img"}
scrape_full_article_sharesansar(page) ==
    CASE page.nav = "TimeoutException" -> Str(TimeoutRetrieving)
      [] page.nav \in {"WebDriverException", "Exception"} -> Str(ErrorRetrieving)
      [] page.nav = "ok" ->
            IF ~page.content.present THEN Str(ContentNotFound)
            ELSE JoinOrNoReadable(CleanParagraphs(
                     Decompose(page.content.val, SharesansarRemovedTags)))

(***************************************************************************)
(* Article Records.  Each extractor appends a dict with the same eight      *)
(* keys; the arguments are Python values.                                   *)
(***************************************************************************)
\* news_scraper.py 128-137
InvestopaperRecord(title, link, date, summary, full_content, categories, image_url) ==
    Dict([title |-> title, link |-> link, date |-> date, summary |-> summary,
          full_content |-> full_content, categories |-> categories,
          image_url |-> image_url, source |-> Str(<<"Investopaper">>)])

\* news_scraper.py 299-308
ShareHubRecord(title, link, date, full_content, image_url) ==
    Dict([title |-> title, link |-> link, date |-> date, summary |-> None,
          full_content |-> full_content, categories |-> List(<<>>),
          image_url |-> image_url, source |-> Str(<<"ShareHubNepal">>)])

\* NepseAlphaRecord, had the image_url key been left out of the dict
NepseAlphaRecordWithoutImageUrl(title, link, date, full_content) ==
    Dict([title |-> title, link |-> link, date |-> date, summary |-> None,
          full_content |-> full_content, categories |-> List(<<>>),
          source |-> Str(<<"NepseAlpha">>)])

\* news_scraper.py 468-477
NepseAlphaRecord(title, link, date, full_content) ==
    Dict([title |-> title, link |-> link, date |-> date, summary |-> None,
          full_content |-> full_content, categories |-> List(<<>>),
          image_url |-> None, source |-> Str(<<"NepseAlpha">>)])

\* a Sharesansar record that keeps the title as its summary
SharesansarRecordWithSummary(title, link, date, full_content) ==
    Dict([title |-> title, link |-> link, date |-> date, summary |-> title,
          full_content |-> full_content, categories |-> List(<<>>),
          image_url |-> None, source |-> Str(<<"Sharesansar">>)])

\* news_scraper.py 625-634
SharesansarRecord(title, link, date, full_content) ==
    Dict([title |-> title, link |-> link, date |-> date, summary |-> None,
          full_content |-> full_content, categories |-> List(<<>>),
          image_url |-> None, source |-> Str(<<"Sharesansar">>)])

(***************************************************************************)
(* Listing items.  Processing one item gives                                *)
(*   [outcome, news, trace]: outcome is "appended", "skipped" (continue)    *)
(*   or "raised" (the per-item except clause), news the records appended    *)
(*   (none or one), trace the detail fetches and sleeps it made.            *)
(***************************************************************************)
Skipped == [outcome |-> "skipped", news |-> <<>>, trace |-> <<>>]
Raised == [outcome |-> "raised", news |-> <<>>, trace |-> <<>>]
\* Appended, without the pause after the article
AppendedWithoutSleep(record) ==
    [outcome |-> "appended", news |-> <<record>>, trace |-> <<"detail">>]

\* news_items.append(record) after the detail fetch, then time.sleep(1)
Appended(record) ==
    [outcome |-> "appended", news |-> <<record>>, trace |-> <<"detail", "sleep">>]

\* news_scraper.py 99-143: one <article> of the Investopaper search results
InvestopaperItem(article) ==
    LET te == article.title_element
        title == IF te.present THEN Str(te.val.text) ELSE Str(NoTitle)
    IN IF ~(te.present /\ te.val.a.present) THEN Skipped     \* link == "#"
       ELSE IF ~te.val.a.val.href.present THEN Raised         \* KeyError 'href'
       ELSE IF te.val.a.val.href.val = <<"#">> THEN Skipped
       ELSE IF ~article.entry_content.present THEN Raised     \* None.find('p')
       ELSE
         LET link == Str(te.val.a.val.href.val)
             date_element == article.entry_content.val.p
             \* the <p> text split at '|', each part stripped
             parts == date_element.val
             date_text == IF date_element.present THEN Str(parts[1])
                          ELSE Str(UnknownDate)
             summary == IF date_element.present /\ Len(parts) > 1
                        THEN Str(parts[2]) ELSE Str(<<>>)
             categories == List([i \in 1..Len(article.categories) |->
                                    Str(article.categories[i])])
             img == article.img
             image_url == IF img.present /\ img.val.data_src.present
                          THEN Str(img.val.data_src.val)
                          ELSE IF img.present /\ img.val.src.present
                          THEN Str(img.val.src.val)
                          ELSE None
             full_content == scrape_full_article_investopaper(article.detail)
         IN Appended(InvestopaperRecord(title, link, date_text, summary,
                                        full_content, categories, image_url))

\* news_scraper.py 269-313: one card of the ShareHubNepal news grid
ShareHubItem(item) ==
    LET first_a == item.a
        span == item.title_span
        article_relative_url ==
            IF first_a.present /\ first_a.val.href.present
            THEN Str(first_a.val.href.val)
            ELSE IF span.present /\ span.val.parent_a.present
                    /\ span.val.parent_a.val.href.present
            THEN Str(span.val.parent_a.val.href.val)
            ELSE None
    IN IF ~Truthy(article_relative_url) THEN Skipped
       ELSE
         LET article_url == Str(urljoin(sharehub_base_url, article_relative_url.val))
             detail == scrape_full_article_sharehubnepal(item.detail)
             full_content == detail[1]
             publish_date == detail[2]
             title == IF span.present THEN Str(span.val.text) ELSE Str(<<>>)
             img == item.img
             image_url == IF img.present /\ img.val.src.present
                          THEN Str(img.val.src.val) ELSE None
         IN Appended(ShareHubRecord(title, article_url, publish_date,
                                    full_content, image_url))

\* news_scraper.py 446-483: one <tr> of the NepseAlpha news table
NepseAlphaItem(row) ==
    IF row.ncells < 2 THEN Skipped
    ELSE IF ~row.title_link.present THEN Skipped
    ELSE IF ~row.title_link.val.href.present THEN Raised      \* KeyError 'href'
    ELSE
      LET date_from_list == Str(row.date_cell)
          title == Str(row.title_link.val.text)
          href == row.title_link.val.href.val
          article_url == IF IsAbsolute(href) THEN Str(href)
                         ELSE Str(urljoin(nepsealpha_base_url, href))
          detail == scrape_full_article_nepsealpha(row.detail)
          full_content == detail[1]
          article_date_from_page == detail[2]
          final_date == IF Truthy(article_date_from_page)
                        THEN article_date_from_page ELSE date_from_list
      IN Appended(NepseAlphaRecord(title, article_url, final_date, full_content))

\* SharesansarItem, had the detail function no except clauses of its own: a
\* failing fetch raises into the row's except clause and the row gives no record
SharesansarItemRaisingOnFetch(row) ==
    IF row.ncells < 2 THEN Skipped
    ELSE IF ~row.title_link.present THEN Skipped
    ELSE IF ~row.title_link.val.href.present THEN Raised
    ELSE IF row.detail.nav # "ok" THEN Raised
    ELSE
      LET date == Str(row.date_cell)
          title == Str(row.title_link.val.text)
          full_url == Str(urljoin(sharesansar_base_url, row.title_link.val.href.val))
          full_content == scrape_full_article_sharesansar(row.detail)
      IN Appended(SharesansarRecord(title, full_url, date, full_content))

\* news_scraper.py 608-640: one <tr> of the Sharesansar news table
SharesansarItem(row) ==
    IF row.ncells < 2 THEN Skipped
    ELSE IF ~row.title_link.present THEN Skipped
    ELSE IF ~row.title_link.val.href.present THEN Raised      \* KeyError 'href'
    ELSE
      LET date == Str(row.date_cell)
          title == Str(row.title_link.val.text)
          full_url == Str(urljoin(sharesansar_base_url, row.title_link.val.href.val))
          full_content == scrape_full_article_sharesansar(row.detail)
      IN Appended(SharesansarRecord(title, full_url, date, full_content))

(***************************************************************************)
(* The four extractors.  Each returns [news, exit, trace]: the list it      *)
(* returns, the way the listing level ended ("ok" when the item loop ran,   *)
(* else the early return or the exception caught), and the detail fetches   *)
(* and sleeps of the item loop.                                             *)
(***************************************************************************)
Returned(news, exit, trace) == [news |-> news, exit |-> exit, trace |-> trace]

\* _scrape_investopaper_news(symbol), news_scraper.py 76-157.  page.get is
\* the outcome of requests.get and raise_for_status on the search url,
\* page.container the <article> elements of div.article-container.
scrape_investopaper_news(page) ==
    IF page.get # "ok" THEN Returned(<<>>, page.get, <<>>)
    ELSE IF ~page.container.present THEN Returned(<<>>, "no container", <<>>)
    ELSE LET articles == page.container.val
             done == [i \in 1..Len(articles) |-> InvestopaperItem(articles[i])]
         IN Returned(Flatten([i \in 1..Len(articles) |-> done[i].news]), "ok",
                     Flatten([i \in 1..Len(articles) |-> done[i].trace]))

\* _scrape_sharehubnepal_news(driver, symbol), news_scraper.py 216-320.
\* page.nav is the outcome of driver.get, page.wait that of the wait for the
\* news grid, page.container the cards of the grid in the page source.
scrape_sharehubnepal_news(page) ==
    IF page.nav # "ok" THEN Returned(<<>>, page.nav, <<>>)
    ELSE IF page.wait # "ok" THEN Returned(<<>>, page.wait, <<>>)
    ELSE IF ~page.container.present THEN Returned(<<>>, "no container", <<>>)
    ELSE IF page.container.val = <<>> THEN Returned(<<>>, "no items", <<>>)
    ELSE LET items == page.container.val
             done == [i \in 1..Len(items) |-> ShareHubItem(items[i])]
         IN Returned(Flatten([i \in 1..Len(items) |-> done[i].news]), "ok",
                     Flatten([i \in 1..Len(items) |-> done[i].trace]))

\* scrape_nepsealpha_news, had the row loop no try block of its own: the first
\* row on which the parse raises ends the loop in the outer except clause
scrape_nepsealpha_news_unguarded(page) ==
    IF page.nav # "ok" THEN Returned(<<>>, page.nav, <<>>)
    ELSE IF page.tab # "ok" THEN Returned(<<>>, page.tab, <<>>)
    ELSE IF page.table_wait # "ok" THEN Returned(<<>>, page.table_wait, <<>>)
    ELSE IF ~page.table.present THEN Returned(<<>>, "no table", <<>>)
    ELSE IF ~page.table.val.tbody.present THEN Returned(<<>>, "Exception", <<>>)
    ELSE IF page.table.val.tbody.val = <<>> THEN Returned(<<>>, "no rows", <<>>)
    ELSE LET rows == page.table.val.tbody.val
             done == [i \in 1..Len(rows) |-> NepseAlphaItem(rows[i])]
             raised == {i \in 1..Len(rows) : done[i].outcome = "raised"}
             last == IF raised = {} THEN Len(rows)
                     ELSE (CHOOSE i \in raised : \A j \in raised : i <= j) - 1
         IN Returned(Flatten([i \in 1..last |-> done[i].news]),
                     IF raised = {} THEN "ok" ELSE "Exception",
                     Flatten([i \in 1..last |-> done[i].trace]))

\* _scrape_nepsealpha_news(driver, symbol), news_scraper.py 382-492.
\* page.nav is the outcome of driver.get, page.tab that of waiting for and
\* clicking the News tab, page.table_wait that of the wait for #news_tables,
\* page.table the table of the page source and its tbody's rows.  A table
\* without tbody raises AttributeError, caught by the outer except clause.
scrape_nepsealpha_news(page) ==
    IF page.nav # "ok" THEN Returned(<<>>, page.nav, <<>>)
    ELSE IF page.tab # "ok" THEN Returned(<<>>, page.tab, <<>>)
    ELSE IF page.table_wait # "ok" THEN Returned(<<>>, page.table_wait, <<>>)
    ELSE IF ~page.table.present THEN Returned(<<>>, "no table", <<>>)
    ELSE IF ~page.table.val.tbody.present THEN Returned(<<>>, "Exception", <<>>)
    ELSE IF page.table.val.tbody.val = <<>> THEN Returned(<<>>, "no rows", <<>>)
    ELSE LET rows == page.table.val.tbody.val
             done == [i \in 1..Len(rows) |-> NepseAlphaItem(rows[i])]
         IN Returned(Flatten([i \in 1..Len(rows) |-> done[i].news]), "ok",
                     Flatten([i \in 1..Len(rows) |-> done[i].trace]))

\* scrape_sharesansar_news, had it no outer except Exception clause: the
\* AttributeError of a table without tbody leaves the extractor
scrape_sharesansar_news_without_outer_except(page) ==
    IF page.nav # "ok" THEN Returned(<<>>, page.nav, <<>>)
    ELSE IF page.tab # "ok" THEN Returned(<<>>, page.tab, <<>>)
    ELSE IF page.table_wait # "ok" THEN Returned(<<>>, page.table_wait, <<>>)
    ELSE IF ~page.table.present THEN Returned(<<>>, "no table", <<>>)
    ELSE IF ~page.table.val.tbody.present
         THEN Returned(<<>>, "AttributeError escaped", <<>>)
    ELSE IF page.table.val.tbody.val = <<>> THEN Returned(<<>>, "no rows", <<>>)
    ELSE LET rows == page.table.val.tbody.val
             done == [i \in 1..Len(rows) |-> SharesansarItem(rows[i])]
         IN Returned(Flatten([i \in 1..Len(rows) |-> done[i].news]), "ok",
                     Flatten([i \in 1..Len(rows) |-> done[i].trace]))

\* _scrape_sharesansar_news(driver, symbol), news_scraper.py 545-649: the
\* same shape as NepseAlpha's, on #btn_cnews and #myTableCNews.
scrape_sharesansar_news(page) ==
    IF page.nav # "ok" THEN Returned(<<>>, page.nav, <<>>)
    ELSE IF page.tab # "ok" THEN Returned(<<>>, page.tab, <<>>)
    ELSE IF page.table_wait # "ok" THEN Returned(<<>>, page.table_wait, <<>>)
    ELSE IF ~page.table.present THEN Returned(<<>>, "no table", <<>>)
    ELSE IF ~page.table.val.tbody.present THEN Returned(<<>>, "Exception", <<>>)
    ELSE IF page.table.val.tbody.val = <<>> THEN Returned(<<>>, "no rows", <<>>)
    ELSE LET rows == page.table.val.tbody.val
             done == [i \in 1..Len(rows) |-> SharesansarItem(rows[i])]
         IN Returned(Flatten([i \in 1..Len(rows) |-> done[i].news]), "ok",
                     Flatten([i \in 1..Len(rows) |-> done[i].trace]))

\* the exits in which the source threw or timed out internally
FailureExits == {"RequestException", "Exception", "TimeoutException",
                 "WebDriverException"}

(***************************************************************************)
(* str.lower(), the file name of a symbol, and JSON.                        *)
(***************************************************************************)
UpperLetters == <<"A", "B", "C", "D", "E", "F", "G", "H", "I", "J", "K", "L", "M",
                  "N", "O", "P", "Q", "R", "S", "T", "U", "V", "W", "X", "Y", "Z">>
LowerLetters == <<"a", "b", "c", "d", "e", "f", "g", "h", "i", "j", "k", "l", "m",
                  "n", "o", "p", "q", "r", "s", "t", "u", "v", "w", "x", "y", "z">>
LowerChar(c) ==
    IF \E i \in 1..Len(UpperLetters) : UpperLetters[i] = c
    THEN LowerLetters[CHOOSE i \in 1..Len(UpperLetters) : UpperLetters[i] = c]
    ELSE c
\* symbol.lower()
lower(chars) == [i \in 1..Len(chars) |-> LowerChar(chars[i])]

\* NewsFilename, had the symbol been used in the case it was given
NewsFilenameVerbatim(symbol) == data_dir \o <<"/">> \o symbol \o <<"_news.json">>

\* os.path.join(self.data_dir, f"{symbol.lower()}_news.json"),
\* news_scraper.py 726 and sentiment_analyzer.py 85
NewsFilename(symbol) == data_dir \o <<"/">> \o lower(symbol) \o <<"_news.json">>

\* datetime.now().isoformat() at clock reading t
isoformat(t) == Str(<<ToString(t)>>)

\* the dict written by scrape_news, news_scraper.py 728-732
Document(symbol, t, all_news) ==
    Dict([symbol |-> Str(symbol), last_updated |-> isoformat(t),
          news |-> List(all_news)])

\* The keys of the dicts of this program in insertion order: json.dump writes
\* the members of a dict in that order.
KeyOrder == <<"symbol", "last_updated", "news",
              "title", "link", "date", "summary", "full_content",
              "categories", "image_url", "source">>

RECURSIVE json_dump(_)
\* json.dump(value): the JSON text, as its syntax tree
json_dump(v) ==
    CASE v.type = "NoneType" -> [json |-> "null"]
      [] v.type = "str" -> [json |-> "string", chars |-> v.val]
      [] v.type = "int" -> [json |-> "number", n |-> v.val]
      [] v.type = "list" ->
            [json |-> "array",
             items |-> [i \in 1..Len(v.val) |-> json_dump(v.val[i])]]
      [] v.type = "dict" ->
            LET keys == SelectSeq(KeyOrder, LAMBDA k : k \in DOMAIN v.val)
            IN [json |-> "object",
                members |-> [i \in 1..Len(keys) |->
                                <<keys[i], json_dump(v.val[keys[i]])>>]]

RECURSIVE json_load(_)
\* json.load(text): the Python value of a JSON text; a repeated member name
\* keeps its last value
json_load(j) ==
    CASE j.json = "null" -> None
      [] j.json = "string" -> Str(j.chars)
      [] j.json = "number" -> PyInt(j.n)
      [] j.json = "array" ->
            List([i \in 1..Len(j.items) |-> json_load(j.items[i])])
      [] j.json = "object" ->
            LET names == {j.members[i][1] : i \in 1..Len(j.members)}
                last(k) == CHOOSE i \in 1..Len(j.members) :
                              /\ j.members[i][1] = k
                              /\ \A i2 \in 1..Len(j.members) :
                                    j.members[i2][1] = k => i2 <= i
            IN Dict([k \in names |-> json_load(j.members[last(k)][2])])

\* WriteFile, had the news of the document already in the file been kept in
\* front of the news of the new one
WriteFileMerging(fs, filename, document) ==
    LET old == IF filename \in DOMAIN fs
               THEN json_load(fs[filename][1]).val.news.val ELSE <<>>
        merged == Dict([document.val EXCEPT
                           !.news = List(old \o document.val.news.val)])
    IN [f \in DOMAIN fs \cup {filename} |->
           IF f = filename THEN <<json_dump(merged)>> ELSE fs[f]]

\* with open(filename, 'w') as f: json.dump(document, f), news_scraper.py
\* 727-732.  A file is the sequence of JSON texts written to it since it was
\* last truncated; mode 'w' truncates.
WriteFile(fs, filename, document) ==
    [f \in DOMAIN fs \cup {filename} |->
        IF f = filename THEN <<json_dump(document)>> ELSE fs[f]]

\* sentiment_analyzer.py 85-92: the document of a symbol, NotFound when the
\* file does not exist.  json.load accepts exactly one JSON text.
NotFound == [type |-> "NotFound"]
JSONDecodeError == [type |-> "JSONDecodeError"]
ReadDocument(fs, symbol) ==
    LET filename == NewsFilename(symbol)
    IN IF filename \notin DOMAIN fs THEN NotFound
       ELSE IF Len(fs[filename]) # 1 THEN JSONDecodeError
       ELSE json_load(fs[filename][1])

\* sentiment_analyzer.py 94-105: the title, link and source each analysed
\* item keeps (the sentiment and score come from the external model and are
\* left out)
AnalyzedItems(data) ==
    IF data.type # "dict" THEN <<>>
    ELSE LET news == data.val.news.val
         IN [i \in 1..Len(news) |->
                [title |-> news[i].val.title, link |-> news[i].val.link,
                 source |-> news[i].val.source]]

(***************************************************************************)
(* Markup builders and the pages the coordinator specification draws from.  *)
(***************************************************************************)
Para(text) == Node("p", "", FALSE, text)
Anchor(href) == Present([href |-> Present(href)])
TitleElement(text, href) == Present([text |-> text, a |-> Anchor(href)])
InvestopaperArticle(title_element, entry_content, categories, img, detail) ==
    [title_element |-> title_element, entry_content |-> entry_content,
     categories |-> categories, img |-> img, detail |-> detail]
InvestopaperDetail(get, entry_content) ==
    [get |-> get, entry_content |-> entry_content]
ShareHubCard(a, title_span, img, detail) ==
    [a |-> a, title_span |-> title_span, img |-> img, detail |-> detail]
ShareHubDetail(nav, header_date, content) ==
    [nav |-> nav, header_date |-> header_date, content |-> content]
TableRow(ncells, date_cell, title_link, detail) ==
    [ncells |-> ncells, date_cell |-> date_cell, title_link |-> title_link,
     detail |-> detail]
TitleLink(text, href) == Present([text |-> text, href |-> href])
NepseAlphaDetail(nav, detail_date, content) ==
    [nav |-> nav, detail_date |-> detail_date, content |-> content]
SharesansarDetail(nav, content) == [nav |-> nav, content |-> content]
TablePage(nav, tab, table_wait, table) ==
    [nav |-> nav, tab |-> tab, table_wait |-> table_wait, table |-> table]
Table(rows) == Present([tbody |-> Present(rows)])

\* the search results of Investopaper: the request fails, the page has no
\* article container, or it lists two articles
InvestopaperPages ==
    { [get |-> "RequestException", container |-> Absent],
      [get |-> "ok", container |-> Absent],
      [get |-> "ok", container |-> Present(<<
          InvestopaperArticle(
              TitleElement(<<"Bank", "profit">>, <<"https://", "investopaper.com/a1">>),
              Present([p |-> Present(<<(<<"May", "1">>), (<<"Q3", "report">>)>>)]),
              <<(<<"Banking">>)>>,
              Present([data_src |-> Absent, src |-> Present(<<"/img/a1.png">>)]),
              InvestopaperDetail("ok",
                  Present(<<Para(<<"Profit", "rose">>), Para(<<"(c)", "2024">>)>>))),
          InvestopaperArticle(
              TitleElement(<<"Dividend">>, <<"https://", "investopaper.com/a2">>),
              Present([p |-> Absent]),
              <<>>,
              Absent,
              InvestopaperDetail("RequestException", Absent))>>)] }

\* the news grid of ShareHubNepal: the wait for the grid times out, or the
\* grid holds one card whose detail page times out
ShareHubPages ==
    { [nav |-> "ok", wait |-> "TimeoutException", container |-> Absent],
      [nav |-> "ok", wait |-> "ok", container |-> Present(<<
          ShareHubCard(Anchor(<<"/post/1">>),
                       Present([text |-> <<"AGM", "notice">>, parent_a |-> Absent]),
                       Absent,
                       ShareHubDetail("TimeoutException", Absent, Absent))>>)] }

\* the news table of NepseAlpha: driver.get fails, the table has no tbody,
\* or it holds a row with one cell, a row whose link has no href and a
\* well-formed row
NepseAlphaPages ==
    { TablePage("WebDriverException", "ok", "ok", Absent),
      TablePage("ok", "ok", "ok", Present([tbody |-> Absent])),
      TablePage("ok", "ok", "ok", Table(<<
          TableRow(1, <<>>, Absent, NepseAlphaDetail("ok", Absent, Absent)),
          TableRow(2, <<"today">>, TitleLink(<<"Notice">>, Absent),
                   NepseAlphaDetail("ok", Absent, Absent)),
          TableRow(2, <<"2 days ago">>,
                   TitleLink(<<"Rights", "issue">>, Present(<<"/news/7">>)),
                   NepseAlphaDetail("ok", Present(<<"2024-05-01">>),
                                    Present(<<Para(<<"Board", "approved">>)>>)))>>)) }

\* the news table of Sharesansar: the News tab never becomes clickable, the
\* table has no rows, or it holds one well-formed row
SharesansarPages ==
    { TablePage("ok", "TimeoutException", "ok", Absent),
      TablePage("ok", "ok", "ok", Table(<<>>)),
      TablePage("ok", "ok", "ok", Table(<<
          TableRow(2, <<"2024-04-30">>,
                   TitleLink(<<"Bonus", "shares">>, Present(<<"/news/9">>)),
                   SharesansarDetail("ok", Present(<<Para(<<"Listed", "today">>)>>)))>>)) }

\* the symbols a command is given: two spellings of one symbol
Symbols == { <<"N", "T", "C">>, <<"n", "t", "c">> }

(***************************************************************************)
(* The program state.                                                       *)
(***************************************************************************)
VARIABLES
    pc,          \* where the command in progress stands ("idle": none)
    symbol,      \* the symbol argument of the command in progress
    all_news_for_symbol,   \* the accumulator of scrape_news
    driver,      \* the local variable driver of scrape_news
    browsers,    \* the browser sessions that are running
    created,     \* the sessions created by the run in progress, in order
    handed,      \* the driver argument given to each browser-driven extractor
    results,     \* what each of the four extractors returned in this run
    caught,      \* the exception caught by the selenium block's except clauses
    events,      \* the calls and pauses of the coordinator in this run
    files,       \* the data directory: file name -> JSON texts written
    clock,       \* the reading datetime.now() gives
    runs,        \* scrape commands started
    returned,    \* how scrape_news left: its return value, or what it raised
    printed,     \* the value main interpolates in "Scraped {count} news items"
    data,        \* what json.load returned in analyze_news_for_symbol
    analyzed,    \* the items analyze_news_for_symbol went through
    latest,      \* per lower-cased symbol: the last run that saved a document
                 \* for it, that document as it stood in memory, and whether
                 \* the document it replaced held news
    listing,     \* a single extractor call: the source and its listing page
    extracted    \* a single extractor call: what the extractor returned

run_vars == <<symbol, all_news_for_symbol, driver, browsers, created, handed,
              results, caught, events, clock, runs, returned, printed>>
store_vars == <<files, latest>>
read_vars == <<data, analyzed>>
extract_vars == <<listing, extracted>>
vars == <<pc, run_vars, store_vars, read_vars, extract_vars>>

Sources == <<"Investopaper", "ShareHubNepal", "NepseAlpha", "Sharesansar">>
NotInvoked == [news |-> <<>>, exit |-> "not invoked"]
NotExtracted == [news |-> <<>>, exit |-> "not invoked", trace |-> <<>>]
\* a running browser session and the WebDriver object that drives it
WebDriver(id) == [type |-> "WebDriver", session |-> id]
NoListing == [source |-> "none"]
\* the driver argument of an extractor call and whether its session runs
Handed(d, running) ==
    [driver |-> d, running |-> d.type = "WebDriver" /\ d.session \in running]

CliInit ==
    /\ symbol = <<>>
    /\ all_news_for_symbol = <<>>
    /\ driver = None
    /\ browsers = {}
    /\ created = <<>>
    /\ handed = <<>>
    /\ results = [i \in 1..4 |-> NotInvoked]
    /\ caught = None
    /\ events = <<>>
    /\ files = <<>>
    /\ clock = 0
    /\ runs = 0
    /\ returned = None
    /\ printed = None
    /\ data = None
    /\ analyzed = <<>>
    /\ latest = <<>>

Init ==
    /\ pc = "idle"
    /\ CliInit
    /\ listing = NoListing
    /\ extracted = NotExtracted

(***************************************************************************)
(* main.py: the scrape command, main.py 21-24.                              *)
(***************************************************************************)
\* A new process runs main: scraper = NepseNewsScraper() and
\* scraper.scrape_news(args.symbol) is entered, news_scraper.py 664,
\* all_news_for_symbol = [].  Nothing but the files outlives a process.
main_scrape(s) ==
    /\ pc = "idle"
    /\ runs < MaxRuns
    /\ pc' = "investopaper"
    /\ symbol' = s
    /\ all_news_for_symbol' = <<>>
    /\ driver' = None
    /\ created' = <<>>
    /\ handed' = <<>>
    /\ results' = [i \in 1..4 |-> NotInvoked]
    /\ caught' = None
    /\ events' = <<>>
    /\ clock' = clock + 1
    /\ runs' = runs + 1
    /\ returned' = None
    /\ printed' = None
    /\ data' = None
    /\ analyzed' = <<>>
    /\ UNCHANGED <<browsers, store_vars, extract_vars>>

\* Extend, had the new records been put in front of the accumulator
ExtendInFront(all_news, news) == IF news # <<>> THEN news \o all_news ELSE all_news

\* if news: all_news_for_symbol.extend(news), news_scraper.py 670-671
Extend(all_news, news) == IF news # <<>> THEN all_news \o news ELSE all_news

\* Collect, had a failure inside an extractor reached the coordinator's try
\* block: the remaining sources are skipped
CollectPropagating(i, r, next) ==
    /\ all_news_for_symbol' = Extend(all_news_for_symbol, r.news)
    /\ results' = [results EXCEPT ![i] = [news |-> r.news, exit |-> r.exit]]
    /\ events' = Append(events, <<"source", i>>)
    /\ pc' = IF r.exit \in FailureExits THEN "finally" ELSE next

\* what the coordinator does with the list an extractor returned
Collect(i, r, next) ==
    /\ all_news_for_symbol' = Extend(all_news_for_symbol, r.news)
    /\ results' = [results EXCEPT ![i] = [news |-> r.news, exit |-> r.exit]]
    /\ events' = Append(events, <<"source", i>>)
    /\ pc' = next

\* news_scraper.py 669-674
CallInvestopaper ==
    /\ pc = "investopaper"
    /\ \E page \in InvestopaperPages :
          Collect(1, scrape_investopaper_news(page), "pause1")
    /\ UNCHANGED <<symbol, driver, browsers, created, handed, caught, clock,
                   runs, returned, printed>>
    /\ UNCHANGED <<store_vars, read_vars, extract_vars>>

\* time.sleep(2), news_scraper.py 675, 694, 703, 712
AfterPause(at) ==
    CASE at = "pause1" -> "start_browser"
      [] at = "pause2" -> "nepsealpha"
      [] at = "pause3" -> "sharesansar"
      [] at = "pause4" -> "finally"

\* Pause, had the coordinator gone on to the next source without sleeping
PauseWithoutSleep ==
    /\ pc \in {"pause1", "pause2", "pause3", "pause4"}
    /\ pc' = AfterPause(pc)
    /\ UNCHANGED <<symbol, all_news_for_symbol, driver, browsers, created,
                   handed, results, caught, events, clock, runs, returned,
                   printed>>
    /\ UNCHANGED <<store_vars, read_vars, extract_vars>>

\* the pause after a source: the sleep, then on to what follows it
Pause ==
    /\ pc \in {"pause1", "pause2", "pause3", "pause4"}
    /\ events' = Append(events, <<"sleep", 2>>)
    /\ pc' = AfterPause(pc)
    /\ UNCHANGED <<symbol, all_news_for_symbol, driver, browsers, created,
                   handed, results, caught, clock, runs, returned, printed>>
    /\ UNCHANGED <<store_vars, read_vars, extract_vars>>

\* driver = webdriver.Chrome(options=options) succeeds, news_scraper.py 681-685
StartBrowser ==
    /\ pc = "start_browser"
    /\ LET id == runs
       IN /\ driver' = WebDriver(id)
          /\ browsers' = browsers \cup {id}
          /\ created' = Append(created, id)
    /\ pc' = "sharehub"
    /\ UNCHANGED <<symbol, all_news_for_symbol, handed, results, caught,
                   events, clock, runs, returned, printed>>
    /\ UNCHANGED <<store_vars, read_vars, extract_vars>>

\* StartBrowserFails, had the except clauses re-raised: the run is aborted
\* and its caller gets the exception
StartBrowserAborts ==
    /\ pc = "start_browser"
    /\ \E exception \in {"WebDriverException", "Exception"} :
          /\ caught' = Str(<<exception>>)
          /\ returned' = [kind |-> "raise", value |-> Str(<<exception>>)]
    /\ pc' = "idle"
    /\ UNCHANGED <<symbol, all_news_for_symbol, driver, browsers, created,
                   handed, results, events, clock, runs, printed>>
    /\ UNCHANGED <<store_vars, read_vars, extract_vars>>

\* StartBrowserFails, had the except clauses emptied the accumulator
StartBrowserFailsLosingNews ==
    /\ pc = "start_browser"
    /\ \E exception \in {"WebDriverException", "Exception"} :
          caught' = Str(<<exception>>)
    /\ all_news_for_symbol' = <<>>
    /\ pc' = "finally"
    /\ UNCHANGED <<symbol, driver, browsers, created, handed, results, events,
                   clock, runs, returned, printed>>
    /\ UNCHANGED <<store_vars, read_vars, extract_vars>>

\* webdriver.Chrome raises: the except clauses of news_scraper.py 714-718
\* print the error and control reaches the finally clause with driver None
StartBrowserFails ==
    /\ pc = "start_browser"
    /\ \E exception \in {"WebDriverException", "Exception"} :
          caught' = Str(<<exception>>)
    /\ pc' = "finally"
    /\ UNCHANGED <<symbol, all_news_for_symbol, driver, browsers, created,
                   handed, results, events, clock, runs, returned, printed>>
    /\ UNCHANGED <<store_vars, read_vars, extract_vars>>

\* news_scraper.py 688-693
CallShareHub ==
    /\ pc = "sharehub"
    /\ \E page \in ShareHubPages :
          Collect(2, scrape_sharehubnepal_news(page), "pause2")
    /\ handed' = Append(handed, Handed(driver, browsers))
    /\ UNCHANGED <<symbol, driver, browsers, created, caught, clock, runs,
                   returned, printed>>
    /\ UNCHANGED <<store_vars, read_vars, extract_vars>>

\* news_scraper.py 697-702
CallNepseAlpha ==
    /\ pc = "nepsealpha"
    /\ \E page \in NepseAlphaPages :
          Collect(3, scrape_nepsealpha_news(page), "pause3")
    /\ handed' = Append(handed, Handed(driver, browsers))
    /\ UNCHANGED <<symbol, driver, browsers, created, caught, clock, runs,
                   returned, printed>>
    /\ UNCHANGED <<store_vars, read_vars, extract_vars>>

\* news_scraper.py 706-711
CallSharesansar ==
    /\ pc = "sharesansar"
    /\ \E page \in SharesansarPages :
          Collect(4, scrape_sharesansar_news(page), "pause4")
    /\ handed' = Append(handed, Handed(driver, browsers))
    /\ UNCHANGED <<symbol, driver, browsers, created, caught, clock, runs,
                   returned, printed>>
    /\ UNCHANGED <<store_vars, read_vars, extract_vars>>

\* Finally, without the call of driver.quit()
FinallyWithoutQuit ==
    /\ pc = "finally"
    /\ pc' = "save"
    /\ UNCHANGED <<symbol, all_news_for_symbol, driver, browsers, created,
                   handed, results, caught, events, clock, runs, returned,
                   printed>>
    /\ UNCHANGED <<store_vars, read_vars, extract_vars>>

\* finally: if driver: driver.quit(), news_scraper.py 719-721
Finally ==
    /\ pc = "finally"
    /\ browsers' = IF driver.type = "WebDriver"
                   THEN browsers \ {driver.session} ELSE browsers
    /\ pc' = "save"
    /\ UNCHANGED <<symbol, all_news_for_symbol, driver, created, handed,
                   results, caught, events, clock, runs, returned, printed>>
    /\ UNCHANGED <<store_vars, read_vars, extract_vars>>

\* the record kept of a save: which run saved which document for a symbol,
\* symbols being told apart as the file names tell them apart, up to case
Remember(saved, s, run, document) ==
    LET replaced == IF lower(s) \notin DOMAIN saved THEN "nothing"
                    ELSE IF saved[lower(s)].document.val.news.val = <<>>
                    THEN "no news" ELSE "news"
    IN [k \in DOMAIN saved \cup {lower(s)} |->
           IF k = lower(s)
           THEN [run |-> run, document |-> document, replaced |-> replaced]
           ELSE saved[k]]

\* Save, had it been skipped for a run that collected nothing
SaveUnlessEmpty ==
    /\ pc = "save"
    /\ LET document == Document(symbol, clock, all_news_for_symbol)
       IN IF all_news_for_symbol = <<>>
          THEN UNCHANGED <<files, latest>>
          ELSE /\ files' = WriteFile(files, NewsFilename(symbol), document)
               /\ latest' = Remember(latest, symbol, runs, document)
    /\ pc' = "return"
    /\ UNCHANGED <<symbol, all_news_for_symbol, driver, browsers, created,
                   handed, results, caught, events, clock, runs, returned,
                   printed>>
    /\ UNCHANGED <<read_vars, extract_vars>>

\* the terminal step, news_scraper.py 725-733
Save ==
    /\ pc = "save"
    /\ LET document == Document(symbol, clock, all_news_for_symbol)
       IN /\ files' = WriteFile(files, NewsFilename(symbol), document)
          /\ latest' = Remember(latest, symbol, runs, document)
    /\ pc' = "return"
    /\ UNCHANGED <<symbol, all_news_for_symbol, driver, browsers, created,
                   handed, results, caught, events, clock, runs, returned,
                   printed>>
    /\ UNCHANGED <<read_vars, extract_vars>>

\* return all_news_for_symbol, news_scraper.py 735
Return ==
    /\ pc = "return"
    /\ returned' = [kind |-> "return", value |-> List(all_news_for_symbol)]
    /\ pc' = "print"
    /\ UNCHANGED <<symbol, all_news_for_symbol, driver, browsers, created,
                   handed, results, caught, events, clock, runs, printed>>
    /\ UNCHANGED <<store_vars, read_vars, extract_vars>>

\* count = scraper.scrape_news(args.symbol);
\* print(f"Scraped {count} news items for ..."), main.py 23-24
main_print ==
    /\ pc = "print"
    /\ printed' = returned.value
    /\ pc' = "idle"
    /\ UNCHANGED <<symbol, all_news_for_symbol, driver, browsers, created,
                   handed, results, caught, events, clock, runs, returned>>
    /\ UNCHANGED <<store_vars, read_vars, extract_vars>>

\* A new process runs main with the analyze command, main.py 26-28 and
\* sentiment_analyzer.py 84-105.
main_analyze(s) ==
    /\ pc = "idle"
    /\ symbol' = s
    /\ LET document == ReadDocument(files, s)
       IN /\ data' = document
          /\ analyzed' = AnalyzedItems(document)
    /\ all_news_for_symbol' = <<>>
    /\ driver' = None
    /\ created' = <<>>
    /\ handed' = <<>>
    /\ results' = [i \in 1..4 |-> NotInvoked]
    /\ caught' = None
    /\ events' = <<>>
    /\ returned' = None
    /\ printed' = None
    /\ UNCHANGED <<pc, browsers, clock, runs, store_vars, extract_vars>>

\* the steps of a scrape command once it has been started
RunStep ==
    \/ CallInvestopaper
    \/ Pause
    \/ StartBrowser
    \/ StartBrowserFails
    \/ CallShareHub
    \/ CallNepseAlpha
    \/ CallSharesansar
    \/ Finally
    \/ Save
    \/ Return
    \/ main_print

Next ==
    \/ \E s \in Symbols : main_scrape(s)
    \/ RunStep
    \/ \E s \in Symbols : main_analyze(s)

Spec == Init /\ [][Next]_vars

\* A started command is one sequential process and every network and browser
\* call of it is bounded by a timeout, so its next step is eventually taken.
\* Nothing obliges the user to issue a command.
FairSpec == Init /\ [][Next]_vars /\ WF_vars(RunStep)

(***************************************************************************)
(* One extractor call on a listing page drawn from a wider set: every       *)
(* early return of the listing level, and listings of up to MaxItems items  *)
(* that vary one piece of the markup at a time around a well-formed item.   *)
(***************************************************************************)
SeqsUpTo(S, n) == UNION {[1..k -> S] : k \in 0..n}

SomeTitle == <<"Bank", "profit">>
SomeDate == <<"May", "1">>
SomeText == <<Para(<<"Profit", "rose">>), Para(<<"Outlook", "stable">>)>>
OnlyBoilerplate == <<Para(<<"(c)", "2024">>), Para(<<"Author:", "Desk">>)>>
MixedText == <<Para(<<"License:", "CC">>), Node("h2", "", FALSE, <<"Summary">>),
               Para(<<"Profit", "rose">>), Node("div", "", FALSE, <<"Advert">>)>>

InvestopaperLink == <<"https://", "investopaper.com/a1">>
InvestopaperDetails ==
    { InvestopaperDetail("RequestException", Absent),
      InvestopaperDetail("Exception", Absent),
      InvestopaperDetail("ok", Absent),
      InvestopaperDetail("ok", Present(<<>>)),
      InvestopaperDetail("ok", Present(SomeText)),
      InvestopaperDetail("ok", Present(OnlyBoilerplate)),
      InvestopaperDetail("ok", Present(MixedText)) }
InvestopaperTitleElements ==
    { Absent,
      Present([text |-> SomeTitle, a |-> Absent]),
      Present([text |-> SomeTitle, a |-> Present([href |-> Absent])]),
      TitleElement(SomeTitle, <<"#">>),
      TitleElement(<<>>, InvestopaperLink),
      TitleElement(SomeTitle, InvestopaperLink) }
InvestopaperEntries ==
    { Absent,
      Present([p |-> Absent]),
      Present([p |-> Present(<<SomeDate>>)]),
      Present([p |-> Present(<<SomeDate, (<<>>)>>)]),
      Present([p |-> Present(<<SomeDate, (<<"Q3", "report">>)>>)]) }
InvestopaperImgs ==
    { Absent,
      Present([data_src |-> Absent, src |-> Absent]),
      Present([data_src |-> Absent, src |-> Present(<<"/img/a1.png">>)]),
      Present([data_src |-> Present(<<"/lazy/a1.png">>),
               src |-> Present(<<"/img/a1.png">>)]) }
InvestopaperArticles ==
    LET te == TitleElement(SomeTitle, InvestopaperLink)
        entry == Present([p |-> Present(<<SomeDate, (<<"Q3", "report">>)>>)])
        cats == <<(<<"Banking">>)>>
        img == Absent
        detail == InvestopaperDetail("ok", Present(SomeText))
    IN   {InvestopaperArticle(t, entry, cats, img, detail) :
              t \in InvestopaperTitleElements}
    \cup {InvestopaperArticle(te, e, cats, img, detail) :
              e \in InvestopaperEntries}
    \cup {InvestopaperArticle(te, entry, c, img, detail) :
              c \in {<<>>, <<(<<"Banking">>), (<<"Dividend">>)>>}}
    \cup {InvestopaperArticle(te, entry, cats, i, detail) :
              i \in InvestopaperImgs}
    \cup {InvestopaperArticle(te, entry, cats, img, d) :
              d \in InvestopaperDetails}
\* article bodies with a "Recommended" paragraph: followed by a divider and
\* a paragraph after it, followed by no divider, and one whose paragraph has
\* no <strong> child and so is no marker
RecommendedBodies ==
    LET marker == Node("p", "", TRUE, <<"Recommended", "reading">>)
        related == Para(<<"Related", "story">>)
        hr == Node("hr", "", FALSE, <<>>)
    IN { <<Para(<<"Profit", "rose">>), marker, related, hr,
           Para(<<"Outlook", "stable">>)>>,
         <<Para(<<"Profit", "rose">>), marker, hr, Para(<<"Outlook", "stable">>),
           hr, Para(<<"Author:", "Desk">>)>>,
         <<Para(<<"Profit", "rose">>), marker, related>>,
         <<Para(<<"Profit", "rose">>), Para(<<"Recommended", "reading">>),
           related, hr, Para(<<"Outlook", "stable">>)>> }
\* listings of one article with such a body
InvestopaperRecommendedListings ==
    LET te == TitleElement(SomeTitle, InvestopaperLink)
        entry == Present([p |-> Present(<<SomeDate, (<<"Q3", "report">>)>>)])
    IN {[get |-> "ok",
         container |-> Present(<<InvestopaperArticle(te, entry, <<>>, Absent,
                                    InvestopaperDetail("ok", Present(body)))>>)] :
            body \in RecommendedBodies}
InvestopaperListings ==
    { [get |-> "RequestException", container |-> Absent],
      [get |-> "Exception", container |-> Absent],
      [get |-> "ok", container |-> Absent] }
    \cup {[get |-> "ok", container |-> Present(articles)] :
              articles \in SeqsUpTo(InvestopaperArticles, MaxItems)}
    \cup InvestopaperRecommendedListings

ShareHubDetails ==
    { ShareHubDetail("TimeoutException", Absent, Absent),
      ShareHubDetail("WebDriverException", Absent, Absent),
      ShareHubDetail("Exception", Absent, Absent),
      ShareHubDetail("ok", Absent, Present(SomeText)),
      ShareHubDetail("ok", Present(<<>>), Present(SomeText)),
      ShareHubDetail("ok", Present(SomeDate), Present(SomeText)),
      ShareHubDetail("ok", Present(SomeDate), Absent),
      ShareHubDetail("ok", Present(SomeDate), Present(<<>>)),
      ShareHubDetail("ok", Present(SomeDate), Present(OnlyBoilerplate)),
      ShareHubDetail("ok", Present(SomeDate), Present(MixedText)) }
ShareHubAnchors ==
    { Absent, Present([href |-> Absent]), Anchor(<<"/post/1">>) }
ShareHubSpans ==
    { Absent,
      Present([text |-> SomeTitle, parent_a |-> Absent]),
      Present([text |-> <<>>, parent_a |-> Absent]),
      Present([text |-> SomeTitle, parent_a |-> Anchor(<<"/post/2">>)]) }
ShareHubImgs ==
    { Absent, Present([src |-> Absent]), Present([src |-> Present(<<"/img/1.png">>)]) }
ShareHubCards ==
    LET a == Anchor(<<"/post/1">>)
        span == Present([text |-> SomeTitle, parent_a |-> Absent])
        detail == ShareHubDetail("ok", Present(SomeDate), Present(SomeText))
    IN   {ShareHubCard(x, y, Absent, detail) :
              x \in ShareHubAnchors, y \in ShareHubSpans}
    \cup {ShareHubCard(a, span, i, detail) : i \in ShareHubImgs}
    \cup {ShareHubCard(a, span, Absent, d) : d \in ShareHubDetails}
ShareHubListings ==
    { [nav |-> "WebDriverException", wait |-> "ok", container |-> Absent],
      [nav |-> "Exception", wait |-> "ok", container |-> Absent],
      [nav |-> "ok", wait |-> "TimeoutException", container |-> Absent],
      [nav |-> "ok", wait |-> "Exception", container |-> Absent],
      [nav |-> "ok", wait |-> "ok", container |-> Absent] }
    \cup {[nav |-> "ok", wait |-> "ok", container |-> Present(cards)] :
              cards \in SeqsUpTo(ShareHubCards, MaxItems)}

TitleLinks ==
    { Absent,
      TitleLink(SomeTitle, Absent),
      TitleLink(<<>>, Present(<<"/news/7">>)),
      TitleLink(SomeTitle, Present(<<"/news/7">>)),
      TitleLink(SomeTitle, Present(<<"https://", "example.com/news/8">>)) }
\* the early returns of the two table-driven listings
FailedTablePages ==
    { TablePage("WebDriverException", "ok", "ok", Absent),
      TablePage("Exception", "ok", "ok", Absent),
      TablePage("ok", "TimeoutException", "ok", Absent),
      TablePage("ok", "Exception", "ok", Absent),
      TablePage("ok", "ok", "TimeoutException", Absent),
      TablePage("ok", "ok", "WebDriverException", Absent),
      TablePage("ok", "ok", "ok", Absent),
      TablePage("ok", "ok", "ok", Present([tbody |-> Absent])) }

NepseAlphaDetails ==
    { NepseAlphaDetail("TimeoutException", Absent, Absent),
      NepseAlphaDetail("WebDriverException", Absent, Absent),
      NepseAlphaDetail("Exception", Absent, Absent),
      NepseAlphaDetail("ok", Absent, Present(SomeText)),
      NepseAlphaDetail("ok", Present(<<>>), Present(SomeText)),
      NepseAlphaDetail("ok", Present(<<"2024-05-01">>), Present(SomeText)),
      NepseAlphaDetail("ok", Present(<<"2024-05-01">>), Absent),
      NepseAlphaDetail("ok", Present(<<"2024-05-01">>), Present(<<>>)),
      NepseAlphaDetail("ok", Present(<<"2024-05-01">>), Present(OnlyBoilerplate)),
      NepseAlphaDetail("ok", Present(<<"2024-05-01">>), Present(MixedText)) }
NepseAlphaRows ==
    LET link == TitleLink(SomeTitle, Present(<<"/news/7">>))
        detail == NepseAlphaDetail("ok", Present(<<"2024-05-01">>), Present(SomeText))
    IN   {TableRow(n, <<"2 days ago">>, link, detail) : n \in 0..3}
    \cup {TableRow(2, <<"2 days ago">>, l, detail) : l \in TitleLinks}
    \cup {TableRow(2, <<>>, link, detail)}
    \cup {TableRow(2, <<"2 days ago">>, link, d) : d \in NepseAlphaDetails}
NepseAlphaListings ==
    FailedTablePages
    \cup {TablePage("ok", "ok", "ok", Table(rows)) :
              rows \in SeqsUpTo(NepseAlphaRows, MaxItems)}

SharesansarDetails ==
    { SharesansarDetail("TimeoutException", Absent),
      SharesansarDetail("WebDriverException", Absent),
      SharesansarDetail("Exception", Absent),
      SharesansarDetail("ok", Absent),
      SharesansarDetail("ok", Present(<<>>)),
      SharesansarDetail("ok", Present(SomeText)),
      SharesansarDetail("ok", Present(OnlyBoilerplate)),
      SharesansarDetail("ok", Present(MixedText)) }
SharesansarRows ==
    LET link == TitleLink(SomeTitle, Present(<<"/news/9">>))
        detail == SharesansarDetail("ok", Present(SomeText))
    IN   {TableRow(n, <<"2024-04-30">>, link, detail) : n \in 0..3}
    \cup {TableRow(2, <<"2024-04-30">>, l, detail) : l \in TitleLinks}
    \cup {TableRow(2, <<>>, link, detail)}
    \cup {TableRow(2, <<"2024-04-30">>, link, d) : d \in SharesansarDetails}
\* listings of three rows: any row between a row whose article loads and a
\* row whose article times out
SharesansarInterruptedListings ==
    LET link == TitleLink(SomeTitle, Present(<<"/news/9">>))
        first == TableRow(2, <<"2024-04-30">>, link,
                          SharesansarDetail("ok", Present(SomeText)))
        last == TableRow(2, <<"2024-04-30">>, link,
                         SharesansarDetail("TimeoutException", Absent))
    IN {TablePage("ok", "ok", "ok", Table(<<first, between, last>>)) :
            between \in SharesansarRows}
SharesansarListings ==
    FailedTablePages
    \cup {TablePage("ok", "ok", "ok", Table(rows)) :
              rows \in SeqsUpTo(SharesansarRows, MaxItems)}
    \cup SharesansarInterruptedListings

ExtractListings ==
         {[source |-> "Investopaper", page |-> pg] : pg \in InvestopaperListings}
    \cup {[source |-> "ShareHubNepal", page |-> pg] : pg \in ShareHubListings}
    \cup {[source |-> "NepseAlpha", page |-> pg] : pg \in NepseAlphaListings}
    \cup {[source |-> "Sharesansar", page |-> pg] : pg \in SharesansarListings}

ExtractInit ==
    /\ pc = "extract"
    /\ CliInit
    /\ listing \in ExtractListings
    /\ extracted = NotExtracted

\* the extractor's return value reaches its caller
Extract(source, result) ==
    /\ pc = "extract"
    /\ listing.source = source
    /\ extracted' = result
    /\ pc' = "extracted"
    /\ UNCHANGED <<run_vars, store_vars, read_vars, listing>>

ExtractInvestopaper ==
    Extract("Investopaper", scrape_investopaper_news(listing.page))
ExtractShareHub ==
    Extract("ShareHubNepal", scrape_sharehubnepal_news(listing.page))
ExtractNepseAlpha ==
    Extract("NepseAlpha", scrape_nepsealpha_news(listing.page))
ExtractSharesansar ==
    Extract("Sharesansar", scrape_sharesansar_news(listing.page))

NextExtract ==
    \/ ExtractInvestopaper
    \/ ExtractShareHub
    \/ ExtractNepseAlpha
    \/ ExtractSharesansar

SpecExtract == ExtractInit /\ [][NextExtract]_vars

(***************************************************************************)
(* Properties of the coordinator.                                           *)
(***************************************************************************)
\* the run in progress has left the selenium block through an except clause
BrowserFailedToStart == caught # None
Invoked(i) == results[i].exit # "not invoked"
FailedInternally(i) == results[i].exit \in FailureExits
\* this run's document as it stands in memory
ThisDocument == Document(symbol, clock, all_news_for_symbol)
\* the run in progress has saved a document
SavedByThisRun ==
    lower(symbol) \in DOMAIN latest /\ latest[lower(symbol)].run = runs

\* C1: every run of scrape_news eventually reaches its terminal step with the
\* document of its symbol on disk, whatever failed inside the four sources.
C1_RunWritesDocument ==
    \A n \in 1..MaxRuns :
        (pc = "investopaper" /\ runs = n)
            ~> (/\ pc = "return"
                /\ runs = n
                /\ ReadDocument(files, symbol) = ThisDocument)

\* C1 witness: a run in which all four sources failed internally stands at
\* its return with the document on disk.
C1_Witness ==
    /\ pc = "return"
    /\ \A i \in 1..4 : FailedInternally(i)
    /\ ReadDocument(files, symbol) = ThisDocument

\* C2 as claimed: when the browser session cannot be started the run aborts,
\* its caller gets a fatal outcome and not a return value, and a run whose
\* browser started returns normally.
C2_AbortsOnBrowserFailure ==
    returned # None =>
        IF BrowserFailedToStart
        THEN returned.kind = "raise" /\ ~SavedByThisRun
        ELSE returned.kind = "return"

\* C2 as amended: no run aborts.  When the browser session cannot be
\* started the three browser-driven sources are skipped, the document is
\* still written with the records collected so far, and the caller gets an
\* ordinary return of that list, as after any other run.
C2_ReturnsOnBrowserFailure ==
    returned # None =>
        /\ returned.kind = "return"
        /\ returned.value = List(all_news_for_symbol)
        /\ SavedByThisRun
        /\ latest[lower(symbol)].document = ThisDocument
        /\ BrowserFailedToStart =>
              /\ all_news_for_symbol = results[1].news
              /\ \A i \in 2..4 : ~Invoked(i)

\* C2 witness: a run whose browser failed to start has returned the records
\* of Investopaper to main.
C2_Witness ==
    /\ pc = "print"
    /\ BrowserFailedToStart
    /\ returned.kind = "return"
    /\ returned.value.val # <<>>

\* C3: a run creates at most one browser session, every browser-driven
\* extractor is handed that session while it runs, and no session runs once
\* the finally clause has been passed.
C3_OneSessionReleased ==
    /\ Len(created) <= 1
    /\ \A i \in 1..Len(handed) :
          /\ handed[i].running
          /\ created = <<handed[i].driver.session>>
    /\ pc \in {"save", "return", "print", "idle"} => browsers = {}

\* C3 witness: a run handed its one session to the three extractors, one of
\* which failed internally, and stands at its return with the session shut.
C3_Witness ==
    /\ pc = "return"
    /\ Len(created) = 1
    /\ Len(handed) = 3
    /\ \E i \in 2..4 : FailedInternally(i)
    /\ browsers = {}

\* C4 as claimed: a source that failed internally contributed an empty list
\* and every source after it was invoked.
C4_LaterSourcesInvoked ==
    pc = "return" =>
        \A i \in 1..4 :
            FailedInternally(i) =>
                /\ results[i].news = <<>>
                /\ \A j \in (i + 1)..4 : Invoked(j)

\* C4 as amended: a source that failed internally contributed an empty list,
\* and every source after it was invoked provided the browser session could
\* be started; when it could not, none of the three browser-driven sources
\* was invoked.
C4_LaterSourcesInvokedIfBrowser ==
    pc = "return" =>
        /\ Invoked(1)
        /\ \A i \in 1..4 :
              FailedInternally(i) =>
                  /\ results[i].news = <<>>
                  /\ ~BrowserFailedToStart => \A j \in (i + 1)..4 : Invoked(j)
        /\ BrowserFailedToStart => \A j \in 2..4 : ~Invoked(j)

\* C4 witness: ShareHubNepal failed internally and NepseAlpha, invoked after
\* it, returned records, as did Sharesansar.
C4_Witness ==
    /\ pc = "return"
    /\ FailedInternally(2)
    /\ results[3].exit = "ok" /\ results[3].news # <<>>
    /\ results[4].exit = "ok" /\ results[4].news # <<>>

(***************************************************************************)
(* Properties of the records and of the stored document.                    *)
(***************************************************************************)
\* the four sentinel strings the specification of full_content defines
FourSentinels == {<<"Content not found">>, <<"No readable content found">>,
                  <<"Error retrieving full article content">>,
                  <<"Timeout retrieving full article content">>}
\* the words of the article bodies the listings are drawn from
BodyWords ==
    LET bodies == {SomeText, OnlyBoilerplate, MixedText} \cup RecommendedBodies
        words(nodes) == UNION {{nodes[i].text[k] : k \in 1..Len(nodes[i].text)} :
                                  i \in 1..Len(nodes)}
    IN UNION {words(nodes) : nodes \in bodies}
\* a text made of words of an article body and paragraph breaks only
IsBodyText(text) == \A k \in 1..Len(text) : text[k] \in BodyWords \cup {"\n\n"}

\* C5 as claimed: in every record an extractor returned, full_content is a
\* non-empty string, and it is either text extracted from the article body
\* or one of the four defined sentinel strings.
C5_FullContentOrSentinel ==
    \A i \in 1..Len(extracted.news) :
        LET full_content == extracted.news[i].val.full_content
        IN /\ full_content.type = "str"
           /\ full_content.val # <<>>
           /\ full_content.val \in FourSentinels \/ IsBodyText(full_content.val)

RecordFields == {"title", "link", "date", "summary", "full_content",
                 "categories", "image_url", "source"}
SourceNames == {Str(<<"Investopaper">>), Str(<<"ShareHubNepal">>),
                Str(<<"NepseAlpha">>), Str(<<"Sharesansar">>)}
\* a dict with exactly the eight fields whose source is one of the four names
IsArticleRecord(r) ==
    /\ r.type = "dict"
    /\ DOMAIN r.val = RecordFields
    /\ r.val.source \in SourceNames
\* the documents of the data directory, as json.load returns them
StoredDocuments ==
    {json_load(files[f][t]) : <<f, t>> \in
        UNION {{<<f2, t2>> : t2 \in 1..Len(files[f2])} : f2 \in DOMAIN files}}

\* C6: every record an extractor returned to the coordinator, every record of
\* the accumulator and every record of every stored document has exactly the
\* eight fields, and its source is one of the four source names (that of the
\* extractor that returned it).
C6_EightFields ==
    /\ \A i \in 1..4 : \A k \in 1..Len(results[i].news) :
          /\ IsArticleRecord(results[i].news[k])
          /\ results[i].news[k].val.source = Str(<<Sources[i]>>)
    /\ \A k \in 1..Len(all_news_for_symbol) :
          IsArticleRecord(all_news_for_symbol[k])
    /\ \A d \in StoredDocuments :
          \A k \in 1..Len(d.val.news.val) : IsArticleRecord(d.val.news.val[k])

\* C6 witness: the stored document of a finished run holds records of all
\* four sources.
C6_Witness ==
    /\ pc = "return"
    /\ \A i \in 1..4 : results[i].news # <<>>
    /\ LET d == ReadDocument(files, symbol)
       IN /\ d.type = "dict"
          /\ {d.val.news.val[k].val.source : k \in 1..Len(d.val.news.val)}
                = SourceNames

\* C7: the news of the document a run wrote is the concatenation of the lists
\* the four extractors returned, Investopaper's first, then ShareHubNepal's,
\* NepseAlpha's and Sharesansar's, and its length is the sum of their lengths.
C7_NewsIsConcatenation ==
    pc = "return" =>
        LET d == ReadDocument(files, symbol)
        IN /\ d.type = "dict"
           /\ d.val.news = List(results[1].news \o results[2].news
                                \o results[3].news \o results[4].news)
           /\ Len(d.val.news.val) = Len(results[1].news) + Len(results[2].news)
                                    + Len(results[3].news) + Len(results[4].news)

\* C7 witness: a run in which every source returned records, Investopaper two
\* of them, wrote five records: Investopaper's two in listing order first,
\* Sharesansar's last.
C7_Witness ==
    /\ pc = "return"
    /\ Len(results[1].news) = 2
    /\ \A i \in 2..4 : Len(results[i].news) = 1
    /\ LET news == ReadDocument(files, symbol).val.news.val
       IN /\ Len(news) = 5
          /\ news[1].val.link = Str(<<"https://", "investopaper.com/a1">>)
          /\ news[2].val.link = Str(<<"https://", "investopaper.com/a2">>)
          /\ news[3].val.source = Str(<<"ShareHubNepal">>)
          /\ news[4].val.source = Str(<<"NepseAlpha">>)
          /\ news[5].val.source = Str(<<"Sharesansar">>)

\* C8: whatever runs have been made, reading the stored document of a symbol
\* gives the document of the most recent run that saved one for it, exactly
\* as that run held it in memory, and no document when there was no such run;
\* so does the read of the analyze command.  Symbols are told apart as the
\* storage key tells them apart, up to letter case.
C8_StoredIsLatest ==
    /\ \A s \in Symbols :
          ReadDocument(files, s) = IF lower(s) \in DOMAIN latest
                                   THEN latest[lower(s)].document ELSE NotFound
    /\ data # None =>
          data = IF lower(symbol) \in DOMAIN latest
                 THEN latest[lower(symbol)].document ELSE NotFound

\* C8 witness: a run that collected nothing replaced a document that held
\* news, and the analyze command then read a document without news.
C8_Witness ==
    /\ pc = "idle"
    /\ data # None
    /\ lower(symbol) \in DOMAIN latest
    /\ latest[lower(symbol)].replaced = "news"
    /\ latest[lower(symbol)].document.val.news.val = <<>>
    /\ data.type = "dict"
    /\ data.val.news = List(<<>>)

\* data/<symbol lower-cased>_news.json, letter by letter
LowerCasedFileName(chars) ==
    <<"data", "/">> \o [i \in 1..Len(chars) |-> LowerChar(chars[i])]
        \o <<"_news.json">>

\* C9: the document of a run is in the file data/<symbol lower-cased>_news.json
\* (data/ntc_news.json for NTC and for ntc, and no other file is written),
\* and its symbol field is the symbol as the caller spelled it.
C9_KeyLowerSymbolVerbatim ==
    /\ DOMAIN files \subseteq {<<"data", "/", "n", "t", "c", "_news.json">>}
    /\ pc = "return" =>
          LET name == LowerCasedFileName(symbol)
          IN /\ name \in DOMAIN files
             /\ Len(files[name]) = 1
             /\ json_load(files[name][1]).val.symbol = Str(symbol)
             /\ json_load(files[name][1]) = ThisDocument

\* C9 witness: a run for NTC stands at its return with data/ntc_news.json
\* holding a document whose symbol is NTC.
C9_Witness ==
    /\ pc = "return"
    /\ symbol = <<"N", "T", "C">>
    /\ <<"data", "/", "n", "t", "c", "_news.json">> \in DOMAIN files
    /\ json_load(files[<<"data", "/", "n", "t", "c", "_news.json">>][1]).val.symbol
          = Str(<<"N", "T", "C">>)

\* C10 as claimed: the value the scrape command reports as the number of
\* scraped items is the count of the records the run accumulated, and the
\* list of those records is what scrape_news gave its caller.
C10_ReportsCount ==
    printed # None =>
        /\ printed.type = "int"
        /\ printed.val = Len(all_news_for_symbol)
        /\ returned.value = List(all_news_for_symbol)

(***************************************************************************)
(* Properties of one extractor call.                                        *)
(***************************************************************************)
\* the items of the listing in listing order (none when there is no list)
ListingItems ==
    CASE listing.source = "Investopaper" ->
            IF listing.page.get = "ok" /\ listing.page.container.present
            THEN listing.page.container.val ELSE <<>>
      [] listing.source = "ShareHubNepal" ->
            IF /\ listing.page.nav = "ok" /\ listing.page.wait = "ok"
               /\ listing.page.container.present
            THEN listing.page.container.val ELSE <<>>
      [] listing.source \in {"NepseAlpha", "Sharesansar"} ->
            IF /\ listing.page.nav = "ok" /\ listing.page.tab = "ok"
               /\ listing.page.table_wait = "ok"
               /\ listing.page.table.present
               /\ listing.page.table.val.tbody.present
            THEN listing.page.table.val.tbody.val ELSE <<>>
      [] OTHER -> <<>>
\* what processing one item of the listing gives
ItemOutcome(item) ==
    CASE listing.source = "Investopaper" -> InvestopaperItem(item)
      [] listing.source = "ShareHubNepal" -> ShareHubItem(item)
      [] listing.source = "NepseAlpha" -> NepseAlphaItem(item)
      [] listing.source = "Sharesansar" -> SharesansarItem(item)
\* an attribute value that is there
HasHref(a) == a.present /\ a.val.href.present
\* a malformed listing item, read off its markup: no link (or the link "#"
\* or empty), too few cells, or markup on which the per-item parse raises (a
\* link element without href, an article without its entry-content)
Malformed(item) ==
    CASE listing.source = "Investopaper" ->
            \/ ~item.title_element.present
            \/ ~HasHref(item.title_element.val.a)
            \/ item.title_element.val.a.val.href.val = <<"#">>
            \/ ~item.entry_content.present
      [] listing.source = "ShareHubNepal" ->
            /\ ~(HasHref(item.a) /\ item.a.val.href.val # <<>>)
            /\ ~(/\ ~HasHref(item.a)
                 /\ item.title_span.present
                 /\ HasHref(item.title_span.val.parent_a)
                 /\ item.title_span.val.parent_a.val.href.val # <<>>)
      [] listing.source \in {"NepseAlpha", "Sharesansar"} ->
            \/ item.ncells < 2
            \/ ~item.title_link.present
            \/ ~item.title_link.val.href.present
\* the positions of the malformed items of the listing
MalformedItems == {k \in 1..Len(ListingItems) : Malformed(ListingItems[k])}

\* C11: when the listing holds exactly one malformed item, at any position,
\* the extractor returns one record for each of the other items, in listing
\* order, and nothing for the malformed one.
C11_MalformedItemSkipped ==
    (pc = "extracted" /\ Cardinality(MalformedItems) = 1) =>
        LET items == ListingItems
            good == SelectSeq([k \in 1..Len(items) |-> k],
                              LAMBDA k : k \notin MalformedItems)
        IN /\ Len(extracted.news) = Len(items) - 1
           /\ \A n \in 1..Len(good) :
                 <<extracted.news[n]>> = ItemOutcome(items[good[n]]).news

\* C11 witness: a table whose first row has a link without href, on which the
\* parse raises, and whose second row is well formed gave the one record of
\* the second row.
C11_Witness ==
    /\ pc = "extracted"
    /\ listing.source = "NepseAlpha"
    /\ Len(ListingItems) = 2
    /\ MalformedItems = {1}
    /\ ListingItems[1].ncells >= 2
    /\ ListingItems[1].title_link.present
    /\ Len(extracted.news) = 1
    /\ extracted.news[1].val.link = Str(nepsealpha_base_url \o <<"/news/7">>)

BrowserSources == {"ShareHubNepal", "NepseAlpha", "Sharesansar"}
\* the wait for the content marker of the item's detail page times out
TimedOut(item) == item.detail.nav = "TimeoutException"
\* a detail page of the listing's source that loads and has a body
LoadedDetail ==
    CASE listing.source = "Investopaper" ->
            InvestopaperDetail("ok", Present(SomeText))
      [] listing.source = "ShareHubNepal" ->
            ShareHubDetail("ok", Present(SomeDate), Present(SomeText))
      [] listing.source = "NepseAlpha" ->
            NepseAlphaDetail("ok", Present(<<"2024-05-01">>), Present(SomeText))
      [] listing.source = "Sharesansar" ->
            SharesansarDetail("ok", Present(SomeText))
\* what the listing's extractor returns for the same page holding these items
ScrapeItems(items) ==
    CASE listing.source = "Investopaper" ->
            scrape_investopaper_news(
                [listing.page EXCEPT !.container = Present(items)]).news
      [] listing.source = "ShareHubNepal" ->
            scrape_sharehubnepal_news(
                [listing.page EXCEPT !.container = Present(items)]).news
      [] listing.source = "NepseAlpha" ->
            scrape_nepsealpha_news(
                [listing.page EXCEPT !.table = Table(items)]).news
      [] listing.source = "Sharesansar" ->
            scrape_sharesansar_news(
                [listing.page EXCEPT !.table = Table(items)]).news
\* the position, among the records returned, of the record of item k
RecordPosition(k) == Cardinality({j \in 1..k : j \notin MalformedItems})

\* C12: in a browser-driven extractor, an item whose detail page times out
\* still gets its record, with full_content "Timeout retrieving full article
\* content", and every other record returned is what it would have been had
\* that detail page loaded.
C12_TimeoutSentinelOnly ==
    (pc = "extracted" /\ listing.source \in BrowserSources) =>
        \A k \in 1..Len(ListingItems) :
            (TimedOut(ListingItems[k]) /\ k \notin MalformedItems) =>
                LET loaded == ScrapeItems(
                        [ListingItems EXCEPT ![k].detail = LoadedDetail])
                    p == RecordPosition(k)
                IN /\ Len(extracted.news) = Len(loaded)
                   /\ p \in 1..Len(extracted.news)
                   /\ extracted.news[p].val.full_content
                         = Str(<<"Timeout retrieving full article content">>)
                   /\ extracted.news[p].val.title = loaded[p].val.title
                   /\ extracted.news[p].val.link = loaded[p].val.link
                   /\ \A n \in 1..Len(extracted.news) :
                         n # p => extracted.news[n] = loaded[n]

\* C12 witness: of two well-formed rows of Sharesansar the first timed out on
\* its detail page; two records came back, the first with the timeout
\* sentinel, the second with the text of its article.
C12_Witness ==
    /\ pc = "extracted"
    /\ listing.source = "Sharesansar"
    /\ Len(ListingItems) = 2
    /\ MalformedItems = {}
    /\ TimedOut(ListingItems[1])
    /\ ~TimedOut(ListingItems[2])
    /\ Len(extracted.news) = 2
    /\ extracted.news[1].val.full_content
          = Str(<<"Timeout retrieving full article content">>)
    /\ extracted.news[2].val.full_content
          = Str(<<"Profit", "rose", "\n\n", "Outlook", "stable">>)

\* the listing page was loaded, but its markup has no list of items: the
\* container or table is missing, the table has no tbody, or the list is empty
MissingList ==
    CASE listing.source = "Investopaper" ->
            /\ listing.page.get = "ok"
            /\ \/ ~listing.page.container.present
               \/ listing.page.container.val = <<>>
      [] listing.source = "ShareHubNepal" ->
            /\ listing.page.nav = "ok" /\ listing.page.wait = "ok"
            /\ \/ ~listing.page.container.present
               \/ listing.page.container.val = <<>>
      [] listing.source \in {"NepseAlpha", "Sharesansar"} ->
            /\ listing.page.nav = "ok" /\ listing.page.tab = "ok"
            /\ listing.page.table_wait = "ok"
            /\ \/ ~listing.page.table.present
               \/ ~listing.page.table.val.tbody.present
               \/ listing.page.table.val.tbody.val = <<>>
      [] OTHER -> FALSE
\* the ways an extractor comes back to its caller with a list: the end of the
\* item loop, an early return [], or an exception caught by its own clauses
ReturningExits == {"ok", "no container", "no items", "no table", "no rows",
                   "RequestException", "Exception", "TimeoutException",
                   "WebDriverException"}

\* C13: an extractor whose listing page has no container or table, a table
\* without tbody or an empty list comes back with an empty list, without a
\* detail fetch, and no exception leaves it.
C13_MissingContainerEmpty ==
    (pc = "extracted" /\ MissingList) =>
        /\ extracted.news = <<>>
        /\ extracted.trace = <<>>
        /\ extracted.exit \in ReturningExits

\* C13 witness: Sharesansar's table had no tbody; the AttributeError was
\* caught inside the extractor, which returned an empty list.
C13_Witness ==
    /\ pc = "extracted"
    /\ listing.source = "Sharesansar"
    /\ listing.page.table.present
    /\ ~listing.page.table.val.tbody.present
    /\ MissingList
    /\ extracted.exit = "Exception"
    /\ extracted.news = <<>>

\* C14 as claimed: in every record an extractor returned, title is a
\* non-empty string ("No title" when the listing item yields none).
C14_TitleNonEmpty ==
    \A i \in 1..Len(extracted.news) :
        /\ extracted.news[i].val.title.type = "str"
        /\ extracted.news[i].val.title.val # <<>>

\* the summary texts the items of the listing supply: Investopaper's text
\* after the '|' of the first paragraph of the entry, when it is not empty
SuppliedSummaries ==
    IF listing.source # "Investopaper" THEN {}
    ELSE {ListingItems[k].entry_content.val.p.val[2] :
            k \in {j \in 1..Len(ListingItems) :
                     /\ ListingItems[j].entry_content.present
                     /\ ListingItems[j].entry_content.val.p.present
                     /\ Len(ListingItems[j].entry_content.val.p.val) > 1
                     /\ ListingItems[j].entry_content.val.p.val[2] # <<>>}}

\* C15 as claimed: in every record an extractor returned, summary is null
\* unless the listing supplied a summary text, and then it is that text.
C15_SummaryNullUnlessSupplied ==
    \A i \in 1..Len(extracted.news) :
        LET summary == extracted.news[i].val.summary
        IN \/ summary = None
           \/ /\ summary.type = "str"
              /\ summary.val \in SuppliedSummaries

\* the date the item's own page yields: the text of its date element when the
\* detail fetch succeeded and that text is not empty
PageDate(item) ==
    CASE listing.source = "ShareHubNepal" ->
            IF /\ item.detail.nav = "ok"
               /\ item.detail.header_date.present
               /\ item.detail.header_date.val # <<>>
            THEN Present(item.detail.header_date.val) ELSE Absent
      [] listing.source = "NepseAlpha" ->
            IF /\ item.detail.nav = "ok"
               /\ item.detail.detail_date.present
               /\ item.detail.detail_date.val # <<>>
            THEN Present(item.detail.detail_date.val) ELSE Absent

\* C16 as claimed: the date of a ShareHubNepal or NepseAlpha record is the
\* date of the article's own page when that page yields one; otherwise, and
\* so whenever the detail fetch fails or times out, it is the date shown for
\* the item on the listing page (a text; for NepseAlpha the first cell of the
\* row).
C16_DateFallsBackToListing ==
    (pc = "extracted" /\ listing.source \in {"ShareHubNepal", "NepseAlpha"}) =>
        \A k \in 1..Len(ListingItems) :
            k \notin MalformedItems =>
                LET date == extracted.news[RecordPosition(k)].val.date
                    own == PageDate(ListingItems[k])
                IN IF own.present THEN date = Str(own.val)
                   ELSE /\ date.type = "str"
                        /\ listing.source = "NepseAlpha" =>
                              date = Str(ListingItems[k].date_cell)

\* the address of the image the listing shows for the item: only a
\* ShareHubNepal card's image with a src is read
ListingImage(item) ==
    IF /\ listing.source = "ShareHubNepal"
       /\ item.img.present
       /\ item.img.val.src.present
    THEN Str(item.img.val.src.val) ELSE None

\* C17 as claimed: every record of the three browser-driven sources has a
\* null summary, an empty list of categories and a null image_url.
C17_BrowserFieldsNull ==
    (pc = "extracted" /\ listing.source \in BrowserSources) =>
        \A n \in 1..Len(extracted.news) :
            /\ extracted.news[n].val.summary = None
            /\ extracted.news[n].val.categories = List(<<>>)
            /\ extracted.news[n].val.image_url = None

\* C17, amended: every record of the three browser-driven sources has a null
\* summary and an empty list of categories; the image_url of a NepseAlpha or
\* Sharesansar record is null, and the image_url of a ShareHubNepal record is
\* the src of the image of its card on the listing, null when the card has no
\* image or the image has no src.
C17_BrowserFieldsFromListing ==
    (pc = "extracted" /\ listing.source \in BrowserSources) =>
        /\ Len(extracted.news) = RecordPosition(Len(ListingItems))
        /\ \A k \in 1..Len(ListingItems) :
              k \notin MalformedItems =>
                  LET record == extracted.news[RecordPosition(k)].val
                  IN /\ record.summary = None
                     /\ record.categories = List(<<>>)
                     /\ record.image_url = ListingImage(ListingItems[k])

\* a ShareHubNepal card with an image was scraped together with a card
\* without one
C17_Witness ==
    /\ pc = "extracted"
    /\ listing.source = "ShareHubNepal"
    /\ Len(ListingItems) = 2
    /\ MalformedItems = {}
    /\ ListingItems[1].img = Present([src |-> Present(<<"/img/1.png">>)])
    /\ ListingItems[2].img = Absent
    /\ extracted.news[1].val.image_url = Str(<<"/img/1.png">>)
    /\ extracted.news[2].val.image_url = None
    /\ extracted.news[1].val.summary = None
    /\ extracted.news[1].val.categories = List(<<>>)

(***************************************************************************)
(* The order of the sources within one run.                                 *)
(***************************************************************************)
\* the run in progress has left the try block: Done
RunDone == pc \in {"save", "return", "print"}

\* the calls and pauses of the run so far are source 1, pause, source 2,
\* pause, ... in the fixed order, each source once and a pause of 2 seconds
\* after each, and a browser-driven source is entered only when the source
\* before it and the pause after that one are over
SourcesInTurn ==
    /\ Len(events) <= 2 * Len(Sources)
    /\ \A j \in 1..Len(events) :
          events[j] = IF j % 2 = 1 THEN <<"source", (j + 1) \div 2>>
                      ELSE <<"sleep", 2>>
    /\ pc = "investopaper" => Len(events) = 0
    /\ pc = "sharehub" => Len(events) = 2
    /\ pc = "nepsealpha" => Len(events) = 4
    /\ pc = "sharesansar" => Len(events) = 6

\* C18 as claimed: within one run the four sources are processed one after
\* another in the fixed order, each at most once, with a pacing delay
\* between the end of one and the start of the next, and the run is Done
\* only after Running(1), Running(2), Running(3) and Running(4).
C18_AllFourInTurn ==
    /\ SourcesInTurn
    /\ RunDone => Len(events) = 2 * Len(Sources)

\* C18, amended: within one run the sources are processed one after another
\* in the fixed order, each at most once, with a pacing delay between the
\* end of one and the start of the next; the run is Done after all four when
\* the browser session could be started, and after Investopaper alone and
\* its pause when it could not.
C18_SourcesInTurn ==
    /\ SourcesInTurn
    /\ RunDone => Len(events) = IF created # <<>> THEN 2 * Len(Sources) ELSE 2

\* a run with a browser is Done after the four sources, the second of which
\* failed inside
C18_Witness ==
    /\ pc = "save"
    /\ created # <<>>
    /\ events = << <<"source", 1>>, <<"sleep", 2>>, <<"source", 2>>,
                   <<"sleep", 2>>, <<"source", 3>>, <<"sleep", 2>>,
                   <<"source", 4>>, <<"sleep", 2>> >>
    /\ results[2].exit \in FailureExits
    /\ \A i \in 1..4 : results[i].exit # "not invoked"

(***************************************************************************)
(* The detail fetches and pauses of one extractor call.                     *)
(***************************************************************************)
\* the positions of the detail fetches in the calls and pauses of the loop
DetailFetches ==
    {i \in 1..Len(extracted.trace) : extracted.trace[i] = "detail"}

\* C19: between any two consecutive detail fetches made while one listing is
\* processed there is a pause, whether the articles fetched gave a body or a
\* sentinel and whatever items were skipped or raised in between; every item
\* that is neither skipped nor raising is fetched once.
C19_PauseBetweenDetailFetches ==
    pc = "extracted" =>
        /\ \A i, j \in DetailFetches :
              i < j => \E m \in (i + 1)..(j - 1) : extracted.trace[m] = "sleep"
        /\ Cardinality(DetailFetches) = Len(extracted.news)
        /\ Len(extracted.news) = RecordPosition(Len(ListingItems))

\* two articles were fetched, the second timed out, and between them stood a
\* row that raised
C19_Witness ==
    /\ pc = "extracted"
    /\ listing.source = "Sharesansar"
    /\ Len(ListingItems) = 3
    /\ MalformedItems = {2}
    /\ ItemOutcome(ListingItems[2]) = Raised
    /\ TimedOut(ListingItems[3])
    /\ extracted.trace = <<"detail", "sleep", "detail", "sleep">>
    /\ Len(extracted.news) = 2

(***************************************************************************)
(* The "Recommended" block of an Investopaper article.                      *)
(***************************************************************************)
\* the body has a "Recommended" marker paragraph and a divider after it
MarkerThenDivider(nodes) ==
    \E m \in 1..Len(nodes) :
        /\ nodes[m].tag = "p"
        /\ nodes[m].strong
        /\ Contains(nodes[m].text, "Recommended")
        /\ \E h \in (m + 1)..Len(nodes) : nodes[h].tag = "hr"

\* the full_content of a body from which the marker and its siblings up to
\* the divider are removed and what follows the divider is kept
RemovalStoppingAtDivider(nodes) ==
    LET kept == RemoveRecommended(nodes)
        unsocial == SelectSeq(kept, LAMBDA n : n.class \notin SocialClasses)
    IN JoinOrNoReadable(CleanParagraphs(Decompose(unsocial, InvestopaperRemovedTags)))

\* C20 as claimed: when the body of an Investopaper article contains a
\* "Recommended" marker paragraph followed later by a divider, the marker
\* and the siblings between it and the divider are removed and the
\* paragraphs after the divider are kept in full_content.
C20_RemovalStopsAtDivider ==
    (pc = "extracted" /\ listing.source = "Investopaper") =>
        \A k \in 1..Len(ListingItems) :
            LET page == ListingItems[k].detail
            IN (/\ k \notin MalformedItems
                /\ page.get = "ok"
                /\ page.entry_content.present
                /\ MarkerThenDivider(page.entry_content.val))
               => extracted.news[RecordPosition(k)].val.full_content
                     = RemovalStoppingAtDivider(page.entry_content.val)

(***************************************************************************)
(* Boilerplate paragraphs of the detail pages.                              *)
(***************************************************************************)
\* the body element of the item's detail page, when the page loads and has one
DetailBody(item) ==
    IF listing.source = "Investopaper"
    THEN IF item.detail.get = "ok" THEN item.detail.entry_content ELSE Absent
    ELSE IF item.detail.nav = "ok" THEN item.detail.content ELSE Absent

\* the body consists of boilerplate paragraphs only
BoilerplateOnly(nodes) ==
    /\ nodes # <<>>
    /\ \A i \in 1..Len(nodes) :
          nodes[i].tag = "p" /\ StartsWith(nodes[i].text, BoilerplateMarkers)

\* no text block of the text, the blocks being separated by blank lines,
\* begins with a boilerplate marker
NoBoilerplateBlock(text) ==
    \A i \in 1..Len(text) :
        (i = 1 \/ text[i - 1] = "\n\n") => text[i] \notin BoilerplateMarkers

\* C21: for each of the four extractors no text block of a record's
\* full_content begins with one of the boilerplate markers, and an article
\* whose body has boilerplate paragraphs only gets the sentinel
\* "No readable content found".
C21_BoilerplateExcluded ==
    pc = "extracted" =>
        /\ \A n \in 1..Len(extracted.news) :
              NoBoilerplateBlock(extracted.news[n].val.full_content.val)
        /\ \A k \in 1..Len(ListingItems) :
              (/\ k \notin MalformedItems
               /\ DetailBody(ListingItems[k]).present
               /\ BoilerplateOnly(DetailBody(ListingItems[k]).val))
              => extracted.news[RecordPosition(k)].val.full_content
                    = Str(NoReadableContentFound)

(***************************************************************************)
(* One record for each item, whatever its detail fetch gives.               *)
(***************************************************************************)
\* the listing item has a usable link: a link element with an address that
\* is neither empty nor "#"
UsableLink(item) ==
    CASE listing.source = "Investopaper" ->
            /\ item.title_element.present
            /\ HasHref(item.title_element.val.a)
            /\ item.title_element.val.a.val.href.val # <<"#">>
      [] listing.source = "ShareHubNepal" -> ~Malformed(item)
      [] listing.source \in {"NepseAlpha", "Sharesansar"} ->
            /\ item.ncells >= 2
            /\ item.title_link.present
            /\ item.title_link.val.href.present

\* the detail fetch of the item fails: timeout, transport or browser error,
\* or a page without the body element
FetchFails(item) == ~DetailBody(item).present

\* a record without the two fields a detail page can give
ListingPart(record) ==
    [f \in DOMAIN record.val \ {"full_content", "date"} |-> record.val[f]]

\* the record of item k is there, and with the item's article loaded instead
\* the extractor returns as many records, the same ones but for the
\* full_content of that record and, where the date is read from the article
\* page, its date
OnlyDetailFieldsDiffer(k) ==
    LET loaded == ScrapeItems([ListingItems EXCEPT ![k].detail = LoadedDetail])
        p == RecordPosition(k)
    IN /\ Len(extracted.news) = Len(loaded)
       /\ p \in 1..Len(extracted.news)
       /\ ListingPart(extracted.news[p]) = ListingPart(loaded[p])
       /\ listing.source \in {"Investopaper", "Sharesansar"} =>
             extracted.news[p].val.date = loaded[p].val.date
       /\ \A n \in 1..Len(extracted.news) :
             n # p => extracted.news[n] = loaded[n]

\* C22 as claimed: each listing item that has a usable link yields exactly
\* one record whatever the outcome of its detail fetch; a failing detail
\* fetch changes only that record's full_content and detail-derived date,
\* never the number of records.
C22_OneRecordPerLinkedItem ==
    pc = "extracted" =>
        /\ Len(extracted.news)
              = Cardinality({k \in 1..Len(ListingItems) : UsableLink(ListingItems[k])})
        /\ \A k \in 1..Len(ListingItems) :
              UsableLink(ListingItems[k]) => OnlyDetailFieldsDiffer(k)

\* C22, amended: each listing item that has a usable link and whose listing
\* markup parses (an Investopaper article also needs its entry-content
\* element) yields exactly one record whatever the outcome of its detail
\* fetch; a failing detail fetch changes only that record's full_content and
\* detail-derived date, never the number of records.
C22_OneRecordPerParsedItem ==
    pc = "extracted" =>
        /\ Len(extracted.news)
              = Cardinality({k \in 1..Len(ListingItems) : k \notin MalformedItems})
        /\ \A k \in 1..Len(ListingItems) :
              k \notin MalformedItems => OnlyDetailFieldsDiffer(k)

\* two rows with usable links, the article of the first failing with a
\* browser error and that of the second lacking its body: two records
C22_Witness ==
    /\ pc = "extracted"
    /\ listing.source = "Sharesansar"
    /\ Len(ListingItems) = 2
    /\ MalformedItems = {}
    /\ ListingItems[1].detail.nav = "WebDriverException"
    /\ ListingItems[2].detail = SharesansarDetail("ok", Absent)
    /\ FetchFails(ListingItems[1]) /\ FetchFails(ListingItems[2])
    /\ Len(extracted.news) = 2
    /\ extracted.news[1].val.full_content = Str(ErrorRetrieving)
    /\ extracted.news[2].val.full_content = Str(ContentNotFound)

(***************************************************************************)
(* The accumulator of a run only grows.                                     *)
(***************************************************************************)
\* the list held before is the beginning of the list held after
Grows(before, after) ==
    /\ Len(before) <= Len(after)
    /\ SubSeq(after, 1, Len(before)) = before

\* C23: at every step of a run the accumulator keeps the records it held,
\* unaltered and in place, and the document the run writes holds the
\* accumulator's records; so the records of an earlier source are in the
\* written document also when the browser fails to start or a later source
\* fails.
C23_AccumulatorOnlyGrows ==
    [][pc # "idle" =>
          /\ Grows(all_news_for_symbol, all_news_for_symbol')
          /\ pc = "save" =>
                /\ ReadDocument(files', symbol).type = "dict"
                /\ Grows(all_news_for_symbol,
                         ReadDocument(files', symbol).val.news.val)]_vars

\* the browser failed to start after Investopaper had returned two records,
\* and the written document holds the two
C23_Witness ==
    /\ pc = "return"
    /\ BrowserFailedToStart
    /\ Len(results[1].news) = 2
    /\ \A i \in 2..4 : ~Invoked(i)
    /\ ReadDocument(files, symbol).val.news = List(results[1].news)

=============================================================================
